---- MODULE Spec2Model ----
(***************************************************************************)
(* Alfred: the plugin registry/executor (tools/plugin_executor.py), the    *)
(* task orchestrator (orchestrator/core.py) and the model router           *)
(* (orchestrator/llm_router.py) as state machines.                         *)
(*                                                                         *)
(* Spec      the plugin registry: discovery, toggle, install, sample       *)
(*           creation and execute_plugin with its SIGALRM timeout.         *)
(* SpecTask  the orchestrator's execute_task pipeline over the router and  *)
(*           the memory engine.                                            *)
(* SpecDispatch  execute_task's plugin gate and execute_from_response,     *)
(*           on the characters of the reply.                               *)
(* SpecNested  execute_plugin entered from inside a plugin method.         *)
(* SpecRace  two toggle_plugin calls, statement by statement.              *)
(***************************************************************************)
EXTENDS Integers, Sequences, FiniteSets, TLC

VARIABLES
    disk,            \* the plugin root: directory name -> directory content
    plugins,         \* PluginExecutor.plugins: name -> manifest
    plugin_modules,  \* PluginExecutor.plugin_modules: name -> loaded code
    pc,              \* position of the control thread inside PluginExecutor
    ret,             \* the last PluginExecutor call and its outcome
    alarm,           \* seconds left on the process-wide alarm, 0 = none armed
    sigPending,      \* SIGALRM has tripped and its Python handler has not run yet
    handler,         \* the installed SIGALRM handler
    old_handler,     \* execute_plugin's local old_handler (SIG_DFL outside a call)
    work,            \* seconds the running plugin method still needs (0 outside a call)
    todo,            \* directories _load_plugins has still to visit
    clients,         \* LLMRouter.clients: configured providers, in dict order
    active_tasks,    \* TaskOrchestrator.active_tasks (task ids)
    completed_tasks, \* TaskOrchestrator.completed_tasks (list of contexts)
    task,            \* the TaskContext and locals of the running execute_task
    tpc,             \* position of the running execute_task
    tret,            \* what the last execute_task call gave its caller
    dresponse,       \* the text execute_from_response was called with
    lines,           \* the lines of that text the loop has still to look at
    results,         \* execute_from_response's list results
    effects,         \* subprocesses started and execute_plugin calls made, in order
    dret,            \* what execute_from_response gave its caller
    denabled,        \* execute_task's enable_plugins for the reply
    dfinal,          \* the response as execute_task holds it after line 91
    stack,           \* execute_plugin frames suspended under the running one
    toggles,         \* the overlapping toggle_plugin calls: thread -> position and locals
    raced            \* a toggle_plugin call began while another was under way

pluginVars == <<disk, plugins, plugin_modules, pc, ret, alarm, sigPending,
                handler, old_handler, work, todo, stack, toggles, raced>>
taskVars == <<clients, active_tasks, completed_tasks, task, tpc, tret>>
dispatchVars == <<dresponse, lines, results, effects, dret, denabled, dfinal>>
vars == <<disk, plugins, plugin_modules, pc, ret, alarm, sigPending,
          handler, old_handler, work, todo, stack, toggles, raced,
          clients, active_tasks, completed_tasks, task, tpc, tret,
          dresponse, lines, results, effects, dret, denabled, dfinal>>

(***************************************************************************)
(* Bounds                                                                  *)
(***************************************************************************)
\* distinct loadable plugin code versions
MaxCode == 2
\* the configured plugins.sandbox_timeout, in clock ticks
Timeout == 2
\* execute_task calls made
MaxTasks == 2
\* lines of a model reply
MaxLines == 1
\* nested LLMRouter.execute frames the interpreter allows (its recursion limit)
MaxDepth == 3

\* lines of the text given to execute_from_response
MaxResp == 2
\* execute_plugin calls a plugin method makes from inside a call
MaxNest == 2

(***************************************************************************)
(* Finite maps (Python dicts)                                              *)
(***************************************************************************)
EmptyMap == [n \in {} |-> 0]
Put(f, k, v) == [n \in (DOMAIN f) \cup {k} |-> IF n = k THEN v ELSE f[n]]
Del(f, k) == [n \in (DOMAIN f) \ {k} |-> f[n]]

(***************************************************************************)
(* The plugin root on disk                                                 *)
(***************************************************************************)
\* names a manifest can carry
Names == {"calculator"}
\* a name no manifest carries
Unknown == "ghost"
CallNames == Names \cup {Unknown}
\* immediate subdirectories of the plugin root
Dirs == {"calculator", "other"}
\* attribute names a caller may ask for
Methods == {"add", "mul"}

RequiredFields ==
    {"name", "version", "description", "entry_point", "permissions", "dependencies"}

\* the entry-point file: absent, raising when executed, or code version ver
Codes ==
    {[kind |-> "missing", ver |-> 0], [kind |-> "raises", ver |-> 0]}
        \cup {[kind |-> "ok", ver |-> c] : c \in 1..MaxCode}

\* text of the JSON "enabled" member ("unset": the member is not there)
EnabledText == {"true", "false", "unset"}

NoDir ==
    [exists |-> FALSE, manifest |-> "none", missing |-> "none",
     name |-> "", enabled |-> "unset", code |-> [kind |-> "missing", ver |-> 0]]
\* a directory without manifest.json
BareDir == [NoDir EXCEPT !.exists = TRUE]
\* manifest.json is not JSON
BadJsonDir == [BareDir EXCEPT !.manifest = "badjson"]
\* manifest.json lacks one required field
LackingDirs ==
    {[exists |-> TRUE, manifest |-> "json", missing |-> f,
      name |-> IF f = "name" THEN "" ELSE n, enabled |-> "true",
      code |-> [kind |-> "ok", ver |-> 1]] :
        f \in RequiredFields, n \in Names}
\* manifest.json has every required field
GoodDirs ==
    [exists : {TRUE}, manifest : {"json"}, missing : {"none"},
     name : Names, enabled : EnabledText, code : Codes]
DirContents == {NoDir, BareDir, BadJsonDir} \cup LackingDirs \cup GoodDirs

WellFormed(c) == c.exists /\ c.manifest = "json" /\ c.missing = "none"

(***************************************************************************)
(* PluginManifest and the loaders                                          *)
(***************************************************************************)
\* (mutant) the dataclass gives dependencies a default
PluginManifestAccepts_DependenciesOptional(c) ==
    \A f \in RequiredFields \ {"dependencies"} : c.missing # f

\* PluginManifest(**manifest_data) raises TypeError unless every field
\* without a default is given
PluginManifestAccepts(c) == \A f \in RequiredFields : c.missing # f

\* the "enabled" member as the dataclass reads it: default True
ParseEnabled(text) == text # "false"
\* json.dump of the enabled attribute
DumpEnabled(flag) == IF flag THEN "true" ELSE "false"

\* the registry and the loaded modules, passed through the loaders
Registry(p, m) == [plugins |-> p, plugin_modules |-> m]

_load_plugin_module(c, name, st) ==
    IF c.code.kind = "missing" THEN st
    ELSE IF c.code.kind = "raises" THEN st
    ELSE [st EXCEPT !.plugin_modules = Put(@, name, c.code.ver)]

\* (mutant) the manifest is registered only once its module has loaded
_load_plugin_RegisterAfterLoad(c, st) ==
    IF c.manifest # "json" THEN st
    ELSE IF ~PluginManifestAccepts(c) THEN st
    ELSE LET manifest == [name |-> c.name, enabled |-> ParseEnabled(c.enabled)]
             st1 == [st EXCEPT !.plugins = Put(@, manifest.name, manifest)]
         IN  IF ~manifest.enabled THEN st1
             ELSE IF c.code.kind = "ok"
             THEN _load_plugin_module(c, manifest.name, st1)
             ELSE st

_load_plugin(c, st) ==
    IF c.manifest # "json" THEN st
    ELSE IF ~PluginManifestAccepts(c) THEN st
    ELSE LET manifest == [name |-> c.name, enabled |-> ParseEnabled(c.enabled)]
             st1 == [st EXCEPT !.plugins = Put(@, manifest.name, manifest)]
         IN  IF manifest.enabled
             THEN _load_plugin_module(c, manifest.name, st1)
             ELSE st1

\* the body of the loop of _load_plugins for one directory entry
_load_plugins_visit(c, st) ==
    IF c.exists /\ c.manifest # "none" THEN _load_plugin(c, st) ELSE st

\* has the module of code version ver the attribute method
hasattr(ver, method) == method = "add" \/ (method = "mul" /\ ver >= 2)

\* the record of a call: what was called, with what, what came back, whether
\* plugin code ran, and (after) the successful toggle or install it followed
Ret(op, name, arg, result, ran) ==
    [op |-> op, name |-> name, arg |-> arg, result |-> result, ran |-> ran,
     after |-> <<>>]
Tag(r) ==
    IF r.op \in {"toggle", "install"} /\ r.result = "True"
    THEN <<r.op, r.name, r.arg>> ELSE <<>>
RetAfter(op, name, arg, result) ==
    [Ret(op, name, arg, result, "no") EXCEPT !.after = Tag(ret)]

(***************************************************************************)
(* PluginExecutor: construction and discovery                              *)
(***************************************************************************)
\* the task side at rest (used while the registry is explored)
TaskAtRest ==
    /\ clients = <<>>
    /\ active_tasks = {}
    /\ completed_tasks = <<>>
    /\ task = [id |-> 0]
    /\ tpc = "idle"
    /\ tret = [id |-> 0, outcome |-> "none"]

\* execute_task has not reached line 88 with a reply
NoFinal == [done |-> FALSE, appended |-> FALSE, section |-> <<>>]

\* the two callers of toggle_plugin: one enables, one disables
Threads == {"on", "off"}
\* no toggle_plugin call has begun
NoToggles == [t \in Threads |-> [pc |-> "start", buf |-> "none", result |-> "none"]]

\* no execute_from_response call has been made
DispatchAtRest ==
    /\ dresponse = <<>>
    /\ lines = <<>>
    /\ results = <<>>
    /\ effects = <<>>
    /\ dret = "none"
    /\ denabled = FALSE
    /\ dfinal = NoFinal

\* __init__ up to the call of _load_plugins, over any content of the root
InitPlugins ==
    /\ disk \in [Dirs -> DirContents]
    /\ plugins = EmptyMap
    /\ plugin_modules = EmptyMap
    /\ pc = "loading"
    /\ todo = {d \in Dirs : disk[d].exists}
    /\ ret = Ret("discover", "", "", "loading", "no")
    /\ alarm = 0
    /\ sigPending = FALSE
    /\ handler = "SIG_DFL"
    /\ old_handler = "SIG_DFL"
    /\ work = 0
    /\ stack = <<>>
    /\ toggles = NoToggles
    /\ raced = FALSE

\* one pass of the loop of _load_plugins, iterdir yielding d next
_load_plugins_step(d) ==
    /\ pc = "loading"
    /\ d \in todo
    /\ LET st == _load_plugins_visit(disk[d], Registry(plugins, plugin_modules))
       IN  /\ plugins' = st.plugins
           /\ plugin_modules' = st.plugin_modules
    /\ todo' = todo \ {d}
    /\ ret' = [ret EXCEPT !.name = d]
    /\ UNCHANGED <<disk, pc, alarm, sigPending, handler, old_handler, work>>
    /\ UNCHANGED taskVars
    /\ UNCHANGED dispatchVars
    /\ UNCHANGED <<stack, toggles, raced>>

\* iterdir is exhausted: _load_plugins returns
_load_plugins_end ==
    /\ pc = "loading"
    /\ todo = {}
    /\ pc' = "idle"
    /\ ret' = [ret EXCEPT !.result = "done"]
    /\ UNCHANGED <<disk, plugins, plugin_modules, todo, alarm, sigPending,
                   handler, old_handler, work>>
    /\ UNCHANGED taskVars
    /\ UNCHANGED dispatchVars
    /\ UNCHANGED <<stack, toggles, raced>>

(***************************************************************************)
(* PluginExecutor.toggle_plugin                                            *)
(***************************************************************************)
\* json.dump(manifest.__dict__) into the manifest.json of directory content c
WriteManifest(c, manifest) ==
    [c EXCEPT !.manifest = "json", !.missing = "none",
              !.name = manifest.name, !.enabled = DumpEnabled(manifest.enabled)]

\* (mutant) disabling never drops the module
ToggleModule_KeepsModule(c, name, enabled, st) ==
    IF enabled /\ name \notin DOMAIN st.plugin_modules
    THEN _load_plugin_module(c, name, st)
    ELSE st

\* the load/unload branch at the end of toggle_plugin
ToggleModule(c, name, enabled, st) ==
    IF enabled /\ name \notin DOMAIN st.plugin_modules
    THEN _load_plugin_module(c, name, st)
    ELSE IF ~enabled /\ name \in DOMAIN st.plugin_modules
    THEN [st EXCEPT !.plugin_modules = Del(@, name)]
    ELSE st

\* (mutant) a failed write goes unnoticed
ManifestWritable_Ignored(name, writeOk) == TRUE

\* open(manifest_file, 'w') and json.dump succeed: the directory
\* plugin_dir / name is there and the operating system allows the write
ManifestWritable(name, writeOk) == writeOk /\ disk[name].exists

\* writeOk: the operating system lets manifest.json be opened and written
toggle_plugin(name, enabled, writeOk) ==
    /\ pc = "idle"
    /\ ~sigPending
    /\ IF name \notin DOMAIN plugins
       THEN /\ ret' = RetAfter("toggle", name, DumpEnabled(enabled), "False")
            /\ UNCHANGED <<disk, plugins, plugin_modules>>
       ELSE LET manifest == [plugins[name] EXCEPT !.enabled = enabled]
                flagged == Put(plugins, name, manifest)
            IN  IF ~ManifestWritable(name, writeOk)
                THEN /\ plugins' = flagged
                     /\ ret' = RetAfter("toggle", name, DumpEnabled(enabled), "False")
                     /\ UNCHANGED <<disk, plugin_modules>>
                ELSE LET written == WriteManifest(disk[name], manifest)
                         st == ToggleModule(written, name, enabled,
                                            Registry(flagged, plugin_modules))
                     IN  /\ disk' = [disk EXCEPT ![name] = written]
                         /\ plugins' = st.plugins
                         /\ plugin_modules' = st.plugin_modules
                         /\ ret' = RetAfter("toggle", name, DumpEnabled(enabled), "True")
    /\ UNCHANGED <<pc, todo, alarm, sigPending, handler, old_handler, work>>
    /\ UNCHANGED taskVars
    /\ UNCHANGED dispatchVars
    /\ UNCHANGED <<stack, toggles, raced>>

(***************************************************************************)
(* PluginExecutor.install_plugin                                           *)
(***************************************************************************)
\* src: the content of the source directory; copyOk: shutil.copytree succeeds;
\* readOk: _load_plugin can open and read the manifest of the installed copy
install_plugin(src, copyOk, readOk) ==
    /\ pc = "idle"
    /\ ~sigPending
    /\ IF ~src.exists \/ src.manifest # "json" \/ ~PluginManifestAccepts(src)
       THEN /\ ret' = RetAfter("install", "", "", "False")
            /\ UNCHANGED <<disk, plugins, plugin_modules>>
       ELSE IF ~copyOk
       THEN /\ disk' = [disk EXCEPT ![src.name] = NoDir]
            /\ ret' = RetAfter("install", src.name, "", "False")
            /\ UNCHANGED <<plugins, plugin_modules>>
       ELSE LET st == IF readOk
                      THEN _load_plugin(src, Registry(plugins, plugin_modules))
                      ELSE Registry(plugins, plugin_modules)
            IN  /\ disk' = [disk EXCEPT ![src.name] = src]
                /\ plugins' = st.plugins
                /\ plugin_modules' = st.plugin_modules
                /\ ret' = RetAfter("install", src.name, "", "True")
    /\ UNCHANGED <<pc, todo, alarm, sigPending, handler, old_handler, work>>
    /\ UNCHANGED taskVars
    /\ UNCHANGED dispatchVars
    /\ UNCHANGED <<stack, toggles, raced>>

(***************************************************************************)
(* PluginExecutor.create_sample_plugins                                    *)
(***************************************************************************)
\* the calculator directory as create_sample_plugins writes it
SampleDir ==
    [exists |-> TRUE, manifest |-> "json", missing |-> "none",
     name |-> "calculator", enabled |-> "true", code |-> [kind |-> "ok", ver |-> 1]]

\* ioOk: mkdir and the two writes succeed; otherwise the error propagates
create_sample_plugins(ioOk) ==
    /\ pc = "idle"
    /\ ~sigPending
    /\ IF ioOk
       THEN /\ disk' = [disk EXCEPT !["calculator"] = SampleDir]
            /\ todo' = {d \in Dirs : disk'[d].exists}
            /\ pc' = "loading"
            /\ ret' = Ret("sample", "", "", "loading", "no")
       ELSE /\ ret' = Ret("sample", "", "", "raised", "no")
            /\ UNCHANGED <<disk, todo, pc>>
    /\ UNCHANGED <<plugins, plugin_modules, alarm, sigPending, handler,
                   old_handler, work>>
    /\ UNCHANGED taskVars
    /\ UNCHANGED dispatchVars
    /\ UNCHANGED <<stack, toggles, raced>>

(***************************************************************************)
(* PluginExecutor.execute_plugin, with the process-wide alarm              *)
(***************************************************************************)
\* (mutant) the enabled flag is not looked at
ExecutePrecondition_NoEnabledCheck(name, method) ==
    IF name \notin DOMAIN plugins THEN "not_found"
    ELSE IF name \notin DOMAIN plugin_modules THEN "not_loaded"
    ELSE IF ~hasattr(plugin_modules[name], method) THEN "method_not_found"
    ELSE ""

\* the four precondition checks, in the order of the code; "" when all pass
ExecutePrecondition(name, method) ==
    IF name \notin DOMAIN plugins THEN "not_found"
    ELSE IF ~plugins[name].enabled THEN "not_enabled"
    ELSE IF name \notin DOMAIN plugin_modules THEN "not_loaded"
    ELSE IF ~hasattr(plugin_modules[name], method) THEN "method_not_found"
    ELSE ""

\* entry of execute_plugin: a failed check raises ValueError to the caller;
\* otherwise the handler is installed, the alarm armed and the method entered.
\* dur: the seconds the plugin method needs
execute_plugin(name, method, dur) ==
    /\ pc = "idle"
    /\ ~sigPending
    /\ LET failed == ExecutePrecondition(name, method)
       IN  IF failed # ""
           THEN /\ ret' = Ret("execute", name, method, failed, "no")
                /\ UNCHANGED <<pc, alarm, handler, old_handler, work>>
           ELSE /\ old_handler' = handler
                /\ handler' = "timeout_handler"
                /\ alarm' = Timeout
                /\ work' = dur
                /\ pc' = "call"
                /\ ret' = Ret("execute", name, method, "running", "yes")
    /\ UNCHANGED <<disk, plugins, plugin_modules, todo, sigPending>>
    /\ UNCHANGED taskVars
    /\ UNCHANGED dispatchVars
    /\ UNCHANGED <<stack, toggles, raced>>

\* a plugin method that is running calls execute_plugin (it holds the
\* executor, or reaches it through the orchestrator): the same entry, with
\* the caller's frame suspended under the new one
execute_plugin_nested(name, method, dur) ==
    /\ pc = "call"
    /\ work > 0
    /\ ~sigPending
    /\ Len(stack) < MaxNest
    /\ ExecutePrecondition(name, method) = ""  \* a failed check arms nothing
    /\ stack' = <<[old_handler |-> old_handler, work |-> work, ret |-> ret]>> \o stack
    /\ old_handler' = handler
    /\ handler' = "timeout_handler"
    /\ alarm' = Timeout
    /\ work' = dur
    /\ ret' = Ret("execute", name, method, "running", "yes")
    /\ UNCHANGED <<disk, plugins, plugin_modules, pc, todo, sigPending>>
    /\ UNCHANGED taskVars
    /\ UNCHANGED dispatchVars
    /\ UNCHANGED <<toggles, raced>>

\* an inner execute_plugin ends: its result goes to the plugin method that
\* called it; an exception (re-raised by line 214) the method either handles
\* or lets pass, which ends the method and enters the caller's finally block
ReturnToOuter(result) ==
    LET outer == Head(stack)
    IN  /\ stack' = Tail(stack)
        /\ old_handler' = outer.old_handler
        /\ work' = outer.work
        /\ IF result \in {"timeout", "plugin_error"}
           THEN \E handled \in BOOLEAN :
                    IF handled
                    THEN pc' = "call" /\ ret' = outer.ret
                    ELSE /\ pc' = "finally_alarm"
                         /\ ret' = [outer.ret EXCEPT !.result = result]
           ELSE pc' = "call" /\ ret' = outer.ret

\* a second passes inside the plugin method; the alarm trips when it runs out
Tick ==
    /\ pc = "call"
    /\ work > 0
    /\ ~sigPending
    /\ work' = work - 1
    /\ alarm' = IF alarm > 0 THEN alarm - 1 ELSE 0
    /\ sigPending' = (alarm = 1)
    /\ UNCHANGED <<disk, plugins, plugin_modules, pc, ret, handler, old_handler, todo>>
    /\ UNCHANGED taskVars
    /\ UNCHANGED dispatchVars
    /\ UNCHANGED <<stack, toggles, raced>>

\* method_func(**kwargs) returns or raises; control enters the finally block
method_func(outcome) ==
    /\ pc = "call"
    /\ work = 0
    /\ pc' = "finally_alarm"
    /\ ret' = [ret EXCEPT !.result = outcome]
    /\ UNCHANGED <<disk, plugins, plugin_modules, alarm, sigPending, handler,
                   old_handler, work, todo>>
    /\ UNCHANGED taskVars
    /\ UNCHANGED dispatchVars
    /\ UNCHANGED <<stack, toggles, raced>>

\* the interpreter runs the Python handler of a tripped SIGALRM before the
\* next instruction. timeout_handler raises TimeoutError there: inside the
\* try it is followed by the finally block, inside the finally block it
\* leaves execute_plugin at once. SIG_DFL has no Python handler to run.
timeout_handler ==
    /\ sigPending
    /\ sigPending' = FALSE
    /\ IF handler # "timeout_handler"
       THEN UNCHANGED <<pc, ret, old_handler, work, stack>>
       ELSE IF pc = "call"
       THEN /\ pc' = "finally_alarm"
            /\ ret' = [ret EXCEPT !.result = "timeout"]
            /\ UNCHANGED <<old_handler, work, stack>>
       ELSE IF pc \in {"finally_alarm", "finally_restore"}
       THEN IF stack = <<>>
            THEN /\ pc' = "idle"
                 /\ ret' = [ret EXCEPT !.result = "timeout"]
                 /\ old_handler' = "SIG_DFL"
                 /\ work' = 0
                 /\ UNCHANGED stack
            ELSE ReturnToOuter("timeout")
       ELSE /\ pc' = pc
            /\ ret' = Ret("signal", "", "", "timeout", "no")
            /\ IF pc = "idle" THEN old_handler' = "SIG_DFL" /\ work' = 0
                              ELSE UNCHANGED <<old_handler, work>>
            /\ UNCHANGED stack
    /\ UNCHANGED <<disk, plugins, plugin_modules, alarm, handler, todo>>
    /\ UNCHANGED taskVars
    /\ UNCHANGED dispatchVars
    /\ UNCHANGED <<toggles, raced>>

\* (mutant) the finally block leaves the alarm as it is
finally_alarm_KeepsAlarm ==
    /\ pc = "finally_alarm"
    /\ pc' = "finally_restore"
    /\ UNCHANGED <<disk, plugins, plugin_modules, ret, alarm, sigPending, handler,
                   old_handler, work, todo>>
    /\ UNCHANGED taskVars
    /\ UNCHANGED dispatchVars
    /\ UNCHANGED <<stack, toggles, raced>>

\* finally: signal.alarm(0)
finally_alarm ==
    /\ pc = "finally_alarm"
    /\ alarm' = 0
    /\ pc' = "finally_restore"
    /\ UNCHANGED <<disk, plugins, plugin_modules, ret, sigPending, handler,
                   old_handler, work, todo>>
    /\ UNCHANGED taskVars
    /\ UNCHANGED dispatchVars
    /\ UNCHANGED <<stack, toggles, raced>>

\* finally: signal.signal(signal.SIGALRM, old_handler), then the result or the
\* exception reaches the caller
finally_restore ==
    /\ pc = "finally_restore"
    /\ handler' = old_handler
    /\ IF stack = <<>>
       THEN /\ pc' = "idle"
            /\ old_handler' = "SIG_DFL"
            /\ work' = 0
            /\ UNCHANGED <<ret, stack>>
       ELSE ReturnToOuter(ret.result)
    /\ UNCHANGED <<disk, plugins, plugin_modules, alarm, sigPending, todo>>
    /\ UNCHANGED taskVars
    /\ UNCHANGED dispatchVars
    /\ UNCHANGED <<toggles, raced>>

NextPlugins ==
    \/ \E d \in Dirs : _load_plugins_step(d)
    \/ _load_plugins_end
    \/ \E name \in CallNames, enabled \in BOOLEAN, writeOk \in BOOLEAN :
           toggle_plugin(name, enabled, writeOk)
    \/ \E src \in DirContents, copyOk \in BOOLEAN, readOk \in BOOLEAN :
           install_plugin(src, copyOk, readOk)
    \/ \E ioOk \in BOOLEAN : create_sample_plugins(ioOk)
    \/ \E name \in CallNames, method \in Methods, dur \in 0..(Timeout + 1) :
           execute_plugin(name, method, dur)
    \/ Tick
    \/ \E outcome \in {"ok", "plugin_error"} : method_func(outcome)
    \/ timeout_handler
    \/ finally_alarm
    \/ finally_restore

Init == InitPlugins /\ TaskAtRest /\ DispatchAtRest
Next == NextPlugins
Spec == Init /\ [][Next]_vars

\* execute_plugin with plugin methods that call execute_plugin themselves
NextNested ==
    \/ \E name \in CallNames, method \in Methods, dur \in 0..(Timeout + 1) :
           execute_plugin(name, method, dur)
    \/ \E name \in CallNames, method \in Methods, dur \in 0..(Timeout + 1) :
           execute_plugin_nested(name, method, dur)
    \/ Tick
    \/ \E outcome \in {"ok", "plugin_error"} : method_func(outcome)
    \/ timeout_handler
    \/ finally_alarm
    \/ finally_restore

(***************************************************************************)
(* LLMRouter                                                               *)
(***************************************************************************)
Range(seq) == {seq[i] : i \in 1..Len(seq)}

\* _init_clients: openai is tried first, then claude
ClientConfigs == {<<>>, <<"openai">>, <<"claude">>, <<"openai", "claude">>}

\* model names a caller may request
Requested == {"auto", "claude", "gpt4", "gemini", "llama"}
\* _classify_task's classes
TaskTypes == {"coding", "reasoning", "creative"}
\* a prompt, as the classes of which the lowered text holds a keyword
Prompts == {{}, {"creative"}, {"coding", "reasoning"}, {"reasoning", "creative"}}

\* the keyword lists are tried in this order; no keyword gives reasoning
_classify_task(prompt) ==
    IF "coding" \in prompt THEN "coding"
    ELSE IF "reasoning" \in prompt THEN "reasoning"
    ELSE IF "creative" \in prompt THEN "creative"
    ELSE "reasoning"

\* llm.model_preferences of the default configuration
model_preferences(task_type) ==
    IF task_type = "reasoning" THEN "claude"
    ELSE IF task_type = "coding" THEN "gpt4"
    ELSE "gemini"

\* model_map.get(model): "" stands for None
model_map(model) ==
    IF model = "claude" THEN "claude"
    ELSE IF model \in {"gpt4", "openai"} THEN "openai"
    ELSE IF model = "gemini" THEN "gemini"
    ELSE ""

_is_model_available(model) == model_map(model) \in Range(clients)

\* (mutant) the explicit request is not looked at
select_model_IgnoresRequest(requested_model, prompt) ==
    LET task_type == _classify_task(prompt)
        preferred_model == model_preferences(task_type)
    IN  IF _is_model_available(preferred_model) THEN preferred_model
        ELSE IF Len(clients) > 0 THEN clients[1]
        ELSE ""

\* the model select_model returns; "" when it raises
select_model(requested_model, prompt) ==
    IF requested_model # "auto" /\ _is_model_available(requested_model)
    THEN requested_model
    ELSE LET task_type == _classify_task(prompt)
             preferred_model == model_preferences(task_type)
         IN  IF _is_model_available(preferred_model) THEN preferred_model
             ELSE IF Len(clients) > 0 THEN clients[1]
             ELSE ""

\* the client _execute_claude/_execute_openai/_execute_gemini reaches for;
\* "" when the call raises before any request is sent
ClientOf(model) ==
    IF model = "claude" /\ "claude" \in Range(clients) THEN "claude"
    ELSE IF model \in {"gpt4", "openai"} /\ "openai" \in Range(clients) THEN "openai"
    ELSE ""

\* available_models of LLMRouter.execute's except branch
FallbackModels(model) == SelectSeq(clients, LAMBDA m : m # model)

(***************************************************************************)
(* TaskOrchestrator.execute_task                                           *)
(***************************************************************************)
\* a reply line: free text, text holding an indicator that is no dispatch
\* prefix ("run:"), or a line starting with a dispatch prefix
LineKinds == {"text", "run:", "execute:", "search:", "tool:"}
Responses == UNION {[1..n -> LineKinds] : n \in 0..MaxLines}
Dispatchable(line) == line \in {"execute:", "search:", "tool:"}

\* "x in response.lower()" for one of tool_indicators
_requires_plugin_execution(response) ==
    \E i \in 1..Len(response) : response[i] \in {"run:", "execute:", "search:", "tool:"}

\* execute_from_response: the number of result blocks; 0 stands for None
execute_from_response(response) ==
    Cardinality({i \in 1..Len(response) : Dispatchable(response[i])})

NoTask ==
    [id |-> 0, use_memory |-> FALSE, enable_plugins |-> FALSE, requested |-> "auto",
     prompt |-> {}, selected |-> "", model |-> "", depth |-> 0,
     answered_by |-> "", response |-> <<>>, blocks |-> 0, status |-> "",
     error |-> "", trail |-> <<>>, faults |-> {}, tried |-> {}]

InitTask ==
    /\ clients \in ClientConfigs
    /\ active_tasks = {}
    /\ completed_tasks = <<>>
    /\ task = NoTask
    /\ tpc = "idle"
    /\ tret = [id |-> 0, outcome |-> "none"]

\* the plugin side at rest (used while the orchestrator is explored)
PluginsAtRest ==
    /\ disk = [d \in Dirs |-> NoDir]
    /\ plugins = EmptyMap
    /\ plugin_modules = EmptyMap
    /\ pc = "idle"
    /\ todo = {}
    /\ ret = Ret("discover", "", "", "done", "no")
    /\ alarm = 0
    /\ sigPending = FALSE
    /\ handler = "SIG_DFL"
    /\ old_handler = "SIG_DFL"
    /\ work = 0
    /\ stack = <<>>
    /\ toggles = NoToggles
    /\ raced = FALSE

\* the TaskContext as filed: metadata status, error and model_used (line 102)
Context(t) ==
    [id |-> t.id, status |-> t.status, error |-> t.error,
     model_used |-> IF t.status = "completed" THEN t.selected ELSE ""]

\* lines 50-64: the context is created and filed under active_tasks
execute_task(use_memory, enable_plugins, requested, prompt) ==
    /\ tpc = "idle"
    /\ task.id < MaxTasks
    /\ LET task_id == task.id + 1
       IN  /\ task' = [NoTask EXCEPT !.id = task_id, !.use_memory = use_memory,
                                     !.enable_plugins = enable_plugins,
                                     !.requested = requested, !.prompt = prompt]
           /\ active_tasks' = active_tasks \cup {task_id}
    /\ tpc' = "memory"
    /\ UNCHANGED <<clients, completed_tasks, tret>>
    /\ UNCHANGED pluginVars
    /\ UNCHANGED dispatchVars

\* (mutant) after the except branch the memory write still runs
TaskFails_ThenStores(t, error) ==
    /\ task' = [t EXCEPT !.status = "failed", !.error = error]
    /\ completed_tasks' = Append(completed_tasks, Context(task'))
    /\ active_tasks' = active_tasks \ {t.id}
    /\ tret' = [id |-> t.id, outcome |-> "raised"]
    /\ tpc' = IF t.use_memory /\ "store" \notin Range(t.trail) THEN "store" ELSE "idle"

\* (mutant) the except branch forgets del self.active_tasks[task_id]
TaskFails_KeepsActive(t, error) ==
    /\ task' = [t EXCEPT !.status = "failed", !.error = error]
    /\ completed_tasks' = Append(completed_tasks, Context(task'))
    /\ active_tasks' = active_tasks
    /\ tret' = [id |-> t.id, outcome |-> "raised"]
    /\ tpc' = "idle"

\* the except branch, lines 110-117
TaskFails(t, error) ==
    /\ task' = [t EXCEPT !.status = "failed", !.error = error]
    /\ completed_tasks' = Append(completed_tasks, Context(task'))
    /\ active_tasks' = active_tasks \ {t.id}
    /\ tret' = [id |-> t.id, outcome |-> "raised"]
    /\ tpc' = "idle"

\* (mutant) memory.search lets its exception through
memory_search_Raises(searchOk) ==
    /\ tpc = "memory"
    /\ IF task.use_memory /\ ~searchOk
       THEN TaskFails([task EXCEPT !.trail = Append(@, "memory"),
                                   !.faults = @ \cup {"memory"}], "memory_error")
       ELSE /\ task' = IF task.use_memory
                       THEN [task EXCEPT !.trail = Append(@, "memory")] ELSE task
            /\ tpc' = "select"
            /\ UNCHANGED <<active_tasks, completed_tasks, tret>>
    /\ UNCHANGED clients
    /\ UNCHANGED pluginVars
    /\ UNCHANGED dispatchVars

\* lines 67-74: memory.search logs its own failure and returns []
memory_search(searchOk) ==
    /\ tpc = "memory"
    /\ task' = IF task.use_memory
               THEN [task EXCEPT !.trail = Append(@, "memory"),
                                 !.faults = IF searchOk THEN @ ELSE @ \cup {"memory"}]
               ELSE task
    /\ tpc' = "select"
    /\ UNCHANGED <<clients, active_tasks, completed_tasks, tret>>
    /\ UNCHANGED pluginVars
    /\ UNCHANGED dispatchVars

\* lines 76-82: select_model, then _build_enhanced_prompt
model_selection ==
    /\ tpc = "select"
    /\ LET selected_model == select_model(task.requested, task.prompt)
           t == [task EXCEPT !.trail = Append(@, "select"), !.selected = selected_model,
                             !.model = selected_model]
       IN  IF selected_model = ""
           THEN TaskFails([t EXCEPT !.faults = @ \cup {"select"}], "no_models")
           ELSE /\ task' = t
                /\ tpc' = "call"
                /\ UNCHANGED <<active_tasks, completed_tasks, tret>>
    /\ UNCHANGED clients
    /\ UNCHANGED pluginVars
    /\ UNCHANGED dispatchVars

\* line 85: one frame of LLMRouter.execute. apiOk: the provider answers;
\* response: its reply
llm_execute(apiOk, response) ==
    /\ tpc = "call"
    /\ LET t == [task EXCEPT !.trail = Append(@, "call"),
                             !.tried = IF ClientOf(task.model) # "" /\ apiOk
                                       THEN @ ELSE @ \cup {task.model}]
           answered == ClientOf(task.model) # "" /\ apiOk
           available_models == FallbackModels(task.model)
       IN  IF answered
           THEN /\ task' = [t EXCEPT !.response = response, !.answered_by = task.model]
                /\ tpc' = "dispatch"
                /\ UNCHANGED <<active_tasks, completed_tasks, tret>>
           ELSE IF Len(available_models) = 0
           THEN TaskFails([t EXCEPT !.faults = @ \cup {"call"}], "model_error")
           ELSE IF task.depth + 1 >= MaxDepth
           THEN TaskFails([t EXCEPT !.faults = @ \cup {"call"}], "recursion")
           ELSE /\ task' = [t EXCEPT !.model = available_models[1], !.depth = @ + 1,
                                     !.faults = @ \cup {"call"}]
                /\ tpc' = "call"
                /\ UNCHANGED <<active_tasks, completed_tasks, tret>>
    /\ UNCHANGED clients
    /\ UNCHANGED pluginVars
    /\ UNCHANGED dispatchVars

\* lines 87-91: execute_from_response turns the failure of a command or tool
\* call into the text of its block. lineOk: every dispatched line succeeds
plugin_dispatch(lineOk) ==
    /\ tpc = "dispatch"
    /\ task' = IF task.enable_plugins /\ _requires_plugin_execution(task.response)
               THEN LET plugin_result == execute_from_response(task.response)
                    IN  [task EXCEPT !.trail = Append(@, "dispatch"),
                                     !.blocks = plugin_result,
                                     !.faults = IF plugin_result > 0 /\ ~lineOk
                                                THEN @ \cup {"dispatch"} ELSE @]
               ELSE task
    /\ tpc' = "store"
    /\ UNCHANGED <<clients, active_tasks, completed_tasks, tret>>
    /\ UNCHANGED pluginVars
    /\ UNCHANGED dispatchVars

\* lines 93-97: store_interaction logs its own failure and returns
memory_store(storeOk) ==
    /\ tpc = "store"
    /\ task' = IF task.use_memory
               THEN [task EXCEPT !.trail = Append(@, "store"),
                                 !.faults = IF storeOk THEN @ ELSE @ \cup {"store"}]
               ELSE task
    /\ tpc' = "complete"
    /\ UNCHANGED <<clients, active_tasks, completed_tasks, tret>>
    /\ UNCHANGED pluginVars
    /\ UNCHANGED dispatchVars

\* lines 99-108
task_completion ==
    /\ tpc = "complete"
    /\ task' = [task EXCEPT !.status = "completed"]
    /\ completed_tasks' = Append(completed_tasks, Context(task'))
    /\ active_tasks' = active_tasks \ {task.id}
    /\ tret' = [id |-> task.id, outcome |-> "returned"]
    /\ tpc' = "idle"
    /\ UNCHANGED clients
    /\ UNCHANGED pluginVars
    /\ UNCHANGED dispatchVars

NextTask ==
    \/ \E use_memory \in BOOLEAN, enable_plugins \in BOOLEAN,
          requested \in Requested, prompt \in Prompts :
           execute_task(use_memory, enable_plugins, requested, prompt)
    \/ \E searchOk \in BOOLEAN : memory_search(searchOk)
    \/ model_selection
    \/ \E apiOk \in BOOLEAN, response \in Responses : llm_execute(apiOk, response)
    \/ \E lineOk \in BOOLEAN : plugin_dispatch(lineOk)
    \/ \E storeOk \in BOOLEAN : memory_store(storeOk)
    \/ task_completion

InitOrchestrator == InitTask /\ PluginsAtRest /\ DispatchAtRest
SpecTask == InitOrchestrator /\ [][NextTask]_vars

(***************************************************************************)
(* Text (Python str) as a sequence of one-character strings                *)
(***************************************************************************)
Whitespace == {" ", "\t", "\r"}
Quotes == {"\"", "'"}

\* str.strip(chars)
RECURSIVE lstrip(_, _)
lstrip(s, chars) ==
    IF s # <<>> /\ Head(s) \in chars THEN lstrip(Tail(s), chars) ELSE s
RECURSIVE rstrip(_, _)
rstrip(s, chars) ==
    IF s # <<>> /\ s[Len(s)] \in chars THEN rstrip(SubSeq(s, 1, Len(s) - 1), chars) ELSE s
strip(s, chars) == rstrip(lstrip(s, chars), chars)

startswith(s, prefix) ==
    Len(s) >= Len(prefix) /\ SubSeq(s, 1, Len(prefix)) = prefix

\* "sub in s"
contains(s, sub) ==
    \E i \in 1..(Len(s) - Len(sub) + 1) : SubSeq(s, i, i + Len(sub) - 1) = sub

\* position of the first c in s, 0 when there is none
find(s, c) ==
    IF \E i \in 1..Len(s) : s[i] = c
    THEN CHOOSE i \in 1..Len(s) : s[i] = c /\ \A j \in 1..(i - 1) : s[j] # c
    ELSE 0

\* s.split(c)
RECURSIVE split(_, _)
split(s, c) ==
    LET i == find(s, c)
    IN  IF i = 0 THEN <<s>>
        ELSE <<SubSeq(s, 1, i - 1)>> \o split(SubSeq(s, i + 1, Len(s)), c)

\* s.split(c, 1)
split1(s, c) ==
    LET i == find(s, c)
    IN  IF i = 0 THEN <<s>>
        ELSE <<SubSeq(s, 1, i - 1), SubSeq(s, i + 1, Len(s))>>

\* sep.join(parts)
RECURSIVE join(_, _)
join(parts, sep) ==
    IF parts = <<>> THEN <<>>
    ELSE IF Len(parts) = 1 THEN parts[1]
    ELSE parts[1] \o sep \o join(Tail(parts), sep)

(***************************************************************************)
(* PluginExecutor.execute_from_response                                    *)
(***************************************************************************)
PrefixExecute == <<"e", "x", "e", "c", "u", "t", "e", ":">>
PrefixSearch == <<"s", "e", "a", "r", "c", "h", ":">>
PrefixTool == <<"t", "o", "o", "l", ":">>

\* the substrings _execute_shell_command refuses
DenyList ==
    {<<"r", "m", " ", "-", "r", "f">>,
     <<"s", "u", "d", "o">>,
     <<"p", "a", "s", "s", "w", "d">>,
     <<"d", "e", "l", " ", "/", "f">>}

\* words of a tool call
Calculator == <<"c", "a", "l", "c", "u", "l", "a", "t", "o", "r">>
Ghost == <<"g", "h", "o", "s", "t">>
Add == <<"a", "d", "d">>
Mul == <<"m", "u", "l">>

\* the Python str of a text, for the names the registry and the modules know
Str(text) ==
    IF text = Calculator THEN "calculator"
    ELSE IF text = Add THEN "add"
    ELSE IF text = Mul THEN "mul"
    ELSE ""

\* parameter names of execute_plugin itself: a keyword of the same name
\* cannot be passed on through **args
ParameterNames == {<<"s", "e", "l", "f">>, <<"n", "a", "m", "e">>, <<"m", "e", "t", "h", "o", "d">>}

\* key=value pairs a tool call is written with
Pair(k, v) == [key |-> k, value |-> v]
ArgLists ==
    {<<>>,
     <<Pair(<<"a">>, <<"2">>)>>,
     <<Pair(<<"a">>, <<"2">>), Pair(<<"b">>, <<"3">>)>>,
     <<Pair(<<"a">>, <<"2", ".", "5">>), Pair(<<"b">>, <<"x", "=", "y">>)>>,
     <<Pair(<<"n", "a", "m", "e">>, <<"2">>), Pair(<<"b">>, <<"3">>)>>}

\* the text k1=v1,...,kn=vn
ArgText(pairs) ==
    join([i \in 1..Len(pairs) |-> pairs[i].key \o <<"=">> \o pairs[i].value], <<",">>)

\* the line tool:P.M(k1=v1,...,kn=vn)
ToolLine(P, M, pairs) ==
    PrefixTool \o P \o <<".">> \o M \o <<"(">> \o ArgText(pairs) \o <<")">>

\* tool calls of that form found in replies
ToolForms ==
    {[P |-> Calculator, M |-> Add, pairs |-> a] : a \in ArgLists}
        \cup {[P |-> Ghost, M |-> Add, pairs |-> <<Pair(<<"a">>, <<"2">>)>>],
              [P |-> Calculator, M |-> Mul, pairs |-> <<Pair(<<"a">>, <<"2">>)>>]}

\* 'hello'
LineText == <<"h", "e", "l", "l", "o">>
\* 'execute: ls'
LineLs == <<"e", "x", "e", "c", "u", "t", "e", ":", " ", "l", "s">>
\* 'execute:rm -rf x'
LineRmRf == <<"e", "x", "e", "c", "u", "t", "e", ":", "r", "m", " ", "-", "r", "f", " ", "x">>
\* '  execute: sudo ls'
LineSudo == <<" ", " ", "e", "x", "e", "c", "u", "t", "e", ":", " ", "s", "u", "d", "o", " ", "l", "s">>
\* 'execute:passwd'
LinePasswd == <<"e", "x", "e", "c", "u", "t", "e", ":", "p", "a", "s", "s", "w", "d">>
\* 'execute:del /f x'
LineDelF == <<"e", "x", "e", "c", "u", "t", "e", ":", "d", "e", "l", " ", "/", "f", " ", "x">>
\* 'execute:rm -r x'
LineRmR == <<"e", "x", "e", "c", "u", "t", "e", ":", "r", "m", " ", "-", "r", " ", "x">>
\* 'search: tla '
LineSearch == <<"s", "e", "a", "r", "c", "h", ":", " ", "t", "l", "a", " ">>
\* 'tool:calculator'
LineToolNoCall == <<"t", "o", "o", "l", ":", "c", "a", "l", "c", "u", "l", "a", "t", "o", "r">>
\* 'tool:calculator.add(a="2", b=\'3\')'
LineToolQuoted == <<"t", "o", "o", "l", ":", "c", "a", "l", "c", "u", "l", "a", "t", "o", "r", ".", "a", "d", "d", "(", "a", "=", "\"", "2", "\"", ",", " ", "b", "=", "'", "3", "'", ")">>
\* 'run: ls'
LineRun == <<"r", "u", "n", ":", " ", "l", "s">>
\* 'Execute: ls'
LineUpper == <<"E", "x", "e", "c", "u", "t", "e", ":", " ", "l", "s">>

\* lines a reply is made of
Lines ==
    {LineText, LineLs, LineRmRf, LineSudo, LinePasswd, LineDelF, LineRmR, LineSearch, LineToolNoCall, LineToolQuoted,
     LineRun, LineUpper}
        \cup {ToolLine(f.P, f.M, f.pairs) : f \in ToolForms}

\* replies of up to MaxResp lines
DispatchResponses ==
    {join(ls, <<"\n">>) : ls \in UNION {[1..n -> Lines] : n \in 1..MaxResp}}

\* (mutant) only rm -rf is refused
Dangerous_OnlyRmRf(command) == contains(command, <<"r", "m", " ", "-", "r", "f">>)

\* any(dangerous in command for dangerous in [...])
Dangerous(command) == \E dangerous \in DenyList : contains(command, dangerous)

\* what a dispatched line comes to: the text of its result and the
\* subprocess or execute_plugin call it made
Done(text, made) == [text |-> text, effects |-> made]

\* run: how the subprocess ends
_execute_shell_command(command, run) ==
    IF Dangerous(command) THEN Done("Error: Dangerous command blocked", <<>>)
    ELSE Done(IF run = "zero" THEN "stdout"
              ELSE IF run = "nonzero" THEN "Error (code)"
              ELSE "Error: Command timed out",
              <<[op |-> "subprocess", command |-> command]>>)

_execute_web_search(query) == Done("Web search would be executed here", <<>>)

\* the loop over args_str.split(',')
RECURSIVE parse_args(_, _)
parse_args(parts, args) ==
    IF parts = <<>> THEN args
    ELSE LET arg == Head(parts)
         IN  IF find(arg, "=") # 0
             THEN LET kv == split1(arg, "=")
                      key == strip(kv[1], Whitespace)
                      value == strip(strip(kv[2], Whitespace), Quotes)
                  IN  parse_args(Tail(parts), Put(args, key, value))
             ELSE parse_args(Tail(parts), args)

\* outcome: how the plugin method ends once execute_plugin has entered it
_execute_tool_call(tool_call, outcome) ==
    IF find(tool_call, ".") = 0 \/ find(tool_call, "(") = 0
    THEN Done("Error: Invalid tool call format", <<>>)
    ELSE LET parts == split1(tool_call, ".")
             plugin_name == parts[1]
             method_part == parts[2]
             method_name == split(method_part, "(")[1]
             args == IF find(method_part, "(") # 0 /\ find(method_part, ")") # 0
                     THEN LET args_str == split(split(method_part, "(")[2], ")")[1]
                          IN  parse_args(split(args_str, ","), EmptyMap)
                     ELSE EmptyMap
         IN  IF DOMAIN args \cap ParameterNames # {}
             THEN Done("Tool execution error: TypeError", <<>>)
             ELSE LET call == [op |-> "execute_plugin", name |-> plugin_name,
                               method |-> method_name, kwargs |-> args]
                      failed == ExecutePrecondition(Str(plugin_name), Str(method_name))
                  IN  IF failed # ""
                      THEN Done("Tool execution error: ValueError", <<call>>)
                      ELSE IF outcome = "ok" THEN Done("str(result)", <<call>>)
                      ELSE Done("Tool execution error: raised", <<call>>)

\* (mutant) the line is not stripped before the prefixes are looked for
LineKind_NoStrip(line) ==
    IF startswith(line, PrefixExecute) THEN "Command"
    ELSE IF startswith(line, PrefixSearch) THEN "Search"
    ELSE IF startswith(line, PrefixTool) THEN "Tool"
    ELSE ""

\* the branch of the loop a line takes; "" when it takes none
LineKind(line) ==
    LET l == strip(line, Whitespace)
    IN  IF startswith(l, PrefixExecute) THEN "Command"
        ELSE IF startswith(l, PrefixSearch) THEN "Search"
        ELSE IF startswith(l, PrefixTool) THEN "Tool"
        ELSE ""

\* the registry as create_sample_plugins leaves it, no call running
PluginsWithSample ==
    /\ disk = [d \in Dirs |-> IF d = "calculator" THEN SampleDir ELSE NoDir]
    /\ plugins = Put(EmptyMap, "calculator", [name |-> "calculator", enabled |-> TRUE])
    /\ plugin_modules = Put(EmptyMap, "calculator", 1)
    /\ pc = "idle"
    /\ todo = {}
    /\ ret = Ret("sample", "", "", "done", "no")
    /\ alarm = 0
    /\ sigPending = FALSE
    /\ handler = "SIG_DFL"
    /\ old_handler = "SIG_DFL"
    /\ work = 0
    /\ stack = <<>>
    /\ toggles = NoToggles
    /\ raced = FALSE

\* str.lower, on the letters a reply is written with
UpperCase == <<"A", "B", "C", "D", "E", "F", "G", "H", "I", "J", "K", "L", "M",
               "N", "O", "P", "Q", "R", "S", "T", "U", "V", "W", "X", "Y", "Z">>
LowerCase == <<"a", "b", "c", "d", "e", "f", "g", "h", "i", "j", "k", "l", "m",
               "n", "o", "p", "q", "r", "s", "t", "u", "v", "w", "x", "y", "z">>
lower(s) ==
    [i \in 1..Len(s) |->
        IF \E k \in 1..26 : UpperCase[k] = s[i]
        THEN LowerCase[CHOOSE k \in 1..26 : UpperCase[k] = s[i]]
        ELSE s[i]]

\* (mutant) the list without "search:"
tool_indicators_NoSearch ==
    {<<"e", "x", "e", "c", "u", "t", "e", ":">>, <<"r", "u", "n", ":">>,
     <<"t", "o", "o", "l", ":">>, <<"c", "o", "m", "m", "a", "n", "d", ":">>,
     <<"f", "e", "t", "c", "h", ":">>,
     <<"c", "a", "l", "c", "u", "l", "a", "t", "e", ":">>,
     <<"a", "n", "a", "l", "y", "z", "e", ":">>}

\* _requires_plugin_execution's list tool_indicators
tool_indicators ==
    {<<"e", "x", "e", "c", "u", "t", "e", ":">>, <<"r", "u", "n", ":">>,
     <<"t", "o", "o", "l", ":">>, <<"c", "o", "m", "m", "a", "n", "d", ":">>,
     <<"s", "e", "a", "r", "c", "h", ":">>, <<"f", "e", "t", "c", "h", ":">>,
     <<"c", "a", "l", "c", "u", "l", "a", "t", "e", ":">>,
     <<"a", "n", "a", "l", "y", "z", "e", ":">>}

\* _requires_plugin_execution over the text of the reply
_requires_plugin_execution_text(text) ==
    \E indicator \in tool_indicators : contains(lower(text), indicator)

\* (mutant) the condition of line 88 without enable_plugins
plugin_execution_condition_IgnoresFlag(enabled, text) ==
    _requires_plugin_execution_text(text)

\* the condition of execute_task's line 88
plugin_execution_condition(enabled, text) ==
    enabled /\ _requires_plugin_execution_text(text)

\* execute_task holds the model's reply and is about to run line 88
InitDispatch ==
    /\ dresponse \in DispatchResponses
    /\ denabled \in BOOLEAN
    /\ lines = <<>>
    /\ results = <<>>
    /\ effects = <<>>
    /\ dret = "gate"
    /\ dfinal = NoFinal

\* core.py line 88: the call of execute_from_response (whose lines 222-223
\* split the reply) or, the condition false, straight on to line 93
plugin_execution_gate ==
    /\ dret = "gate"
    /\ IF plugin_execution_condition(denabled, dresponse)
       THEN /\ dret' = "scanning"
            /\ lines' = split(dresponse, "\n")
            /\ UNCHANGED dfinal
       ELSE /\ dret' = "skipped"
            /\ dfinal' = [done |-> TRUE, appended |-> FALSE, section |-> <<>>]
            /\ UNCHANGED lines
    /\ UNCHANGED <<dresponse, denabled, results, effects>>
    /\ UNCHANGED pluginVars
    /\ UNCHANGED taskVars

\* one pass of the loop, lines 225-242
execute_from_response_line(run, outcome) ==
    /\ dret = "scanning"
    /\ lines # <<>>
    /\ LET line == strip(Head(lines), Whitespace)
           kind == LineKind(Head(lines))
           rest(n) == strip(SubSeq(line, n + 1, Len(line)), Whitespace)
       IN  IF kind = "Command"
           THEN LET command == rest(8)
                    result == _execute_shell_command(command, run)
                IN  /\ results' = Append(results, [kind |-> kind, arg |-> command,
                                                   result |-> result.text])
                    /\ effects' = effects \o result.effects
           ELSE IF kind = "Search"
           THEN LET query == rest(7)
                    result == _execute_web_search(query)
                IN  /\ results' = Append(results, [kind |-> kind, arg |-> query,
                                                   result |-> result.text])
                    /\ effects' = effects \o result.effects
           ELSE IF kind = "Tool"
           THEN LET tool_call == rest(5)
                    result == _execute_tool_call(tool_call, outcome)
                IN  /\ results' = Append(results, [kind |-> kind, arg |-> tool_call,
                                                   result |-> result.text])
                    /\ effects' = effects \o result.effects
           ELSE UNCHANGED <<results, effects>>
    /\ lines' = Tail(lines)
    /\ UNCHANGED <<dresponse, dret, denabled, dfinal>>
    /\ UNCHANGED pluginVars
    /\ UNCHANGED taskVars

\* line 244: the blocks joined by a blank line, or None
execute_from_response_return ==
    /\ dret = "scanning"
    /\ lines = <<>>
    /\ dret' = IF results # <<>> THEN "text" ELSE "None"
    /\ UNCHANGED <<dresponse, lines, results, effects, denabled, dfinal>>
    /\ UNCHANGED pluginVars
    /\ UNCHANGED taskVars

\* core.py lines 90-91: a result that is not None (its blocks are never
\* empty text) is appended under the heading Plugin Execution Result
append_plugin_result ==
    /\ dret \in {"None", "text"}
    /\ ~dfinal.done
    /\ dfinal' = [done |-> TRUE, appended |-> dret = "text",
                  section |-> IF dret = "text" THEN results ELSE <<>>]
    /\ UNCHANGED <<dresponse, lines, results, effects, dret, denabled>>
    /\ UNCHANGED pluginVars
    /\ UNCHANGED taskVars

NextDispatch ==
    \/ \E run \in {"zero", "nonzero", "timeout"}, outcome \in {"ok", "plugin_error", "timeout"} :
           execute_from_response_line(run, outcome)
    \/ execute_from_response_return
    \/ plugin_execution_gate
    \/ append_plugin_result

InitDispatcher == InitDispatch /\ PluginsWithSample /\ TaskAtRest
SpecDispatch == InitDispatcher /\ [][NextDispatch]_vars

InitNested == PluginsWithSample /\ TaskAtRest /\ DispatchAtRest
SpecNested == InitNested /\ [][NextNested]_vars

(***************************************************************************)
(* toggle_plugin called from two threads, statement by statement           *)
(***************************************************************************)
\* the plugin both calls name
RaceName == "calculator"
\* the argument enabled of thread t's call
Wanted(t) == t = "on"
\* the other thread is inside toggle_plugin
Underway(t) == \E u \in Threads \ {t} : toggles[u].pc \notin {"start", "done"}

\* thread t moves to position p
Goto(t, p) == toggles' = [toggles EXCEPT ![t].pc = p]
\* thread t's call returns result
Return(t, result) == toggles' = [toggles EXCEPT ![t].pc = "done", ![t].result = result]

\* what toggle_plugin's statements leave alone outside the registry and the disk
RaceFrame ==
    /\ UNCHANGED <<pc, ret, alarm, sigPending, handler, old_handler, work, todo, stack>>
    /\ UNCHANGED taskVars
    /\ UNCHANGED dispatchVars

\* lines 108-110: the lookup of the name
toggle_check(t) ==
    /\ toggles[t].pc = "start"
    /\ raced' = (raced \/ Underway(t))
    /\ IF RaceName \notin DOMAIN plugins THEN Return(t, "False") ELSE Goto(t, "set")
    /\ UNCHANGED <<disk, plugins, plugin_modules>>
    /\ RaceFrame

\* lines 112-113: the flag of the one manifest object both calls hold
toggle_set(t) ==
    /\ toggles[t].pc = "set"
    /\ plugins' = [plugins EXCEPT ![RaceName].enabled = Wanted(t)]
    /\ Goto(t, "open")
    /\ UNCHANGED <<disk, plugin_modules, raced>>
    /\ RaceFrame

\* line 119: open(manifest_file, 'w') empties the file, or raises
toggle_open(t, writeOk) ==
    /\ toggles[t].pc = "open"
    /\ IF ManifestWritable(RaceName, writeOk)
       THEN /\ disk' = [disk EXCEPT ![RaceName].manifest = "badjson",
                                    ![RaceName].enabled = "unset"]
            /\ Goto(t, "dump")
       ELSE /\ Return(t, "False")
            /\ UNCHANGED disk
    /\ UNCHANGED <<plugins, plugin_modules, raced>>
    /\ RaceFrame

\* line 120: json.dump(manifest.__dict__, f) fills the buffer of t's file
\* object with the manifest as it is now
toggle_dump(t) ==
    /\ toggles[t].pc = "dump"
    /\ toggles' = [toggles EXCEPT ![t].pc = "close",
                                  ![t].buf = DumpEnabled(plugins[RaceName].enabled)]
    /\ UNCHANGED <<disk, plugins, plugin_modules, raced>>
    /\ RaceFrame

\* the file after t's buffer is written from offset 0 over content c: text
\* with "true" is one character shorter than text with "false", whose last
\* character then stays behind the shorter text
Flush(c, buf) ==
    IF c.manifest = "json" /\ c.enabled = "false" /\ buf = "true"
    THEN [c EXCEPT !.manifest = "badjson", !.enabled = "unset"]
    ELSE [c EXCEPT !.manifest = "json", !.missing = "none", !.name = RaceName, !.enabled = buf]

\* the end of the with block of lines 119-120: the file object is closed and
\* its buffer reaches the file
toggle_close(t) ==
    /\ toggles[t].pc = "close"
    /\ disk' = [disk EXCEPT ![RaceName] = Flush(@, toggles[t].buf)]
    /\ Goto(t, "branch")
    /\ UNCHANGED <<plugins, plugin_modules, raced>>
    /\ RaceFrame

\* lines 123 and 125: the two tests, on the argument enabled
toggle_branch(t) ==
    /\ toggles[t].pc = "branch"
    /\ IF Wanted(t) /\ RaceName \notin DOMAIN plugin_modules THEN Goto(t, "load")
       ELSE IF ~Wanted(t) /\ RaceName \in DOMAIN plugin_modules THEN Goto(t, "unload")
       ELSE Goto(t, "return")
    /\ UNCHANGED <<disk, plugins, plugin_modules, raced>>
    /\ RaceFrame

\* line 124: self._load_plugin_module(plugin_path, manifest)
toggle_load(t) ==
    /\ toggles[t].pc = "load"
    /\ plugin_modules' = _load_plugin_module(disk[RaceName], RaceName,
                                             Registry(plugins, plugin_modules)).plugin_modules
    /\ Goto(t, "return")
    /\ UNCHANGED <<disk, plugins, raced>>
    /\ RaceFrame

\* (mutant) disabling leaves the module where it is
toggle_unload_KeepsModule(t) ==
    /\ toggles[t].pc = "unload"
    /\ Goto(t, "return")
    /\ UNCHANGED <<disk, plugins, plugin_modules, raced>>
    /\ RaceFrame

\* line 126: del self.plugin_modules[name]; KeyError when it is gone
toggle_unload(t) ==
    /\ toggles[t].pc = "unload"
    /\ IF RaceName \in DOMAIN plugin_modules
       THEN /\ plugin_modules' = Del(plugin_modules, RaceName)
            /\ Goto(t, "return")
       ELSE /\ Return(t, "False")
            /\ UNCHANGED plugin_modules
    /\ UNCHANGED <<disk, plugins, raced>>
    /\ RaceFrame

\* lines 128-129
toggle_return(t) ==
    /\ toggles[t].pc = "return"
    /\ Return(t, "True")
    /\ UNCHANGED <<disk, plugins, plugin_modules, raced>>
    /\ RaceFrame

NextRace ==
    \/ \E t \in Threads : toggle_check(t)
    \/ \E t \in Threads : toggle_set(t)
    \/ \E t \in Threads, writeOk \in BOOLEAN : toggle_open(t, writeOk)
    \/ \E t \in Threads : toggle_dump(t)
    \/ \E t \in Threads : toggle_close(t)
    \/ \E t \in Threads : toggle_branch(t)
    \/ \E t \in Threads : toggle_load(t)
    \/ \E t \in Threads : toggle_unload(t)
    \/ \E t \in Threads : toggle_return(t)

\* the executor after discovery over a root that holds the one directory
InitRace ==
    /\ disk \in {[d \in Dirs |-> IF d = RaceName THEN c ELSE NoDir] :
                    c \in GoodDirs \cup {BareDir}}
    /\ LET st == _load_plugins_visit(disk[RaceName], Registry(EmptyMap, EmptyMap))
       IN  /\ plugins = st.plugins
           /\ plugin_modules = st.plugin_modules
    /\ pc = "idle"
    /\ todo = {}
    /\ ret = Ret("discover", "", "", "done", "no")
    /\ alarm = 0
    /\ sigPending = FALSE
    /\ handler = "SIG_DFL"
    /\ old_handler = "SIG_DFL"
    /\ work = 0
    /\ stack = <<>>
    /\ toggles = NoToggles
    /\ raced = FALSE

InitRacing == InitRace /\ TaskAtRest /\ DispatchAtRest
SpecRace == InitRacing /\ [][NextRace]_vars

(***************************************************************************)
(* Properties of the plugin registry (Spec)                                *)
(***************************************************************************)
PreconditionErrors == {"not_found", "not_enabled", "not_loaded", "method_not_found"}

\* the flag in the manifest file of plugin n equals the flag in memory
Persisted(n) ==
    /\ WellFormed(disk[n])
    /\ disk[n].name = n
    /\ ParseEnabled(disk[n].enabled) = plugins[n].enabled

\* C1: execute_plugin raises one distinct error per violated precondition -
\* not-found for an unregistered name, not-enabled for a registered plugin
\* whose flag is false, not-loaded for an enabled plugin without a module,
\* method-not-found for a loaded module without the attribute - the error
\* reaches the caller and no plugin code has run.
C1_DistinctErrors ==
    ret.op = "execute" =>
        LET n == ret.name
            registered == n \in DOMAIN plugins
            enabled == registered /\ plugins[n].enabled
            loaded == enabled /\ n \in DOMAIN plugin_modules
        IN  /\ (ret.result = "not_found") <=> ~registered
            /\ (ret.result = "not_enabled") <=> (registered /\ ~enabled)
            /\ (ret.result = "not_loaded") <=> (enabled /\ ~loaded)
            /\ (ret.result = "method_not_found") <=>
                   (loaded /\ ~hasattr(plugin_modules[n], ret.arg))
            /\ ret.result \in PreconditionErrors => (ret.ran = "no" /\ pc = "idle")
            /\ ret.result \notin PreconditionErrors => ret.ran = "yes"

C1_Witness ==
    /\ ret.op = "execute"
    /\ ret.result = "not_loaded"
    /\ ret.name \in DOMAIN plugins
    /\ pc = "idle"

C5_AlarmReleased ==
    [][(pc \in {"call", "finally_alarm", "finally_restore"}) =>
          /\ (pc = "call" /\ pc' # "call" /\ work > 0) => ret'.result = "timeout"
          /\ pc' = "idle" => alarm' = 0
          /\ pc' = "idle" => handler' = old_handler]_vars

\* C6 as claimed: after two successful installs of sources carrying the same
\* name the registry holds that name once, the copy on disk and the registered
\* manifest are the second source's, and nothing of the first copy is left -
\* a module loaded under that name is the second source's code.
C6_SecondInstallWins ==
    [][(ret'.op = "install" /\ ret'.result = "True") =>
          \A src \in GoodDirs :
              (install_plugin(src, TRUE, TRUE) /\ ret'.after = <<"install", src.name, "">>)
                  => /\ src.name \in DOMAIN plugins'
                     /\ plugins'[src.name] =
                            [name |-> src.name, enabled |-> ParseEnabled(src.enabled)]
                     /\ disk'[src.name] = src
                     /\ src.name \in DOMAIN plugin_modules'
                            => /\ ParseEnabled(src.enabled)
                               /\ src.code.kind = "ok"
                               /\ plugin_modules'[src.name] = src.code.ver]_vars

\* C7: visiting a plugin directory whose manifest lacks a required field
\* raises nothing (the loop goes on), registers nothing and loads nothing.
C7_LackingSkipped ==
    [][(pc = "loading") =>
          \A d \in Dirs :
              (_load_plugins_step(d) /\ disk[d].manifest = "json"
                 /\ disk[d].missing # "none")
                  => /\ plugins' = plugins
                     /\ plugin_modules' = plugin_modules
                     /\ pc' = "loading"
                     /\ ret'.result = "loading"]_vars

C7_Witness ==
    /\ ret.op = "discover"
    /\ ret.name \in Dirs
    /\ disk[ret.name] \in LackingDirs
    /\ disk[ret.name].missing = "dependencies"
    /\ disk[ret.name].name \notin DOMAIN plugins

\* C8: when discovery ends, whatever the order of the directories and however
\* many of them are malformed or lack their entry point, the name of every
\* directory with a well-formed manifest is registered, and it has a module
\* when the manifest is enabled and the entry point loads.
C8_DiscoveryNeverAborts ==
    (ret.op \in {"discover", "sample"} /\ ret.result = "done") =>
        \A d \in Dirs :
            WellFormed(disk[d]) =>
                /\ disk[d].name \in DOMAIN plugins
                /\ (ParseEnabled(disk[d].enabled) /\ disk[d].code.kind = "ok")
                       => disk[d].name \in DOMAIN plugin_modules

C8_Witness ==
    /\ ret.op = "discover" /\ ret.result = "done"
    /\ disk["calculator"] = BadJsonDir
    /\ WellFormed(disk["other"])
    /\ disk["other"].name \in DOMAIN plugin_modules

\* no other directory of the root carries the name of directory d
SoleCarrier(d) ==
    \A e \in Dirs \ {d} : ~(WellFormed(disk[e]) /\ disk[e].name = disk[d].name)

LoadFails(c) == WellFormed(c) /\ ParseEnabled(c.enabled) /\ c.code.kind # "ok"

\* C9 as claimed: on every path that performs Load - discovery, install over a
\* new or a loaded name, toggle_plugin(name, True) - a failed load leaves the
\* name out of plugin_modules.
C9_FailedLoadLeavesAbsent ==
    [][/\ pc = "loading" =>
             \A d \in Dirs :
                 (_load_plugins_step(d) /\ LoadFails(disk[d]) /\ SoleCarrier(d))
                     => disk[d].name \notin DOMAIN plugin_modules'
       /\ (ret'.op = "install" /\ ret'.result = "True") =>
             \A src \in GoodDirs :
                 (install_plugin(src, TRUE, TRUE) /\ LoadFails(src))
                     => src.name \notin DOMAIN plugin_modules'
       /\ (ret'.op = "toggle" /\ ret'.result = "True") =>
             \A n \in Names, writeOk \in BOOLEAN :
                 (toggle_plugin(n, TRUE, writeOk)
                    /\ n \notin DOMAIN plugin_modules /\ disk[n].code.kind # "ok")
                     => n \notin DOMAIN plugin_modules']_vars

\* C10: toggle_plugin returns False, never raising, for a name that is not
\* registered and when the manifest cannot be written; it returns True only
\* with the manifest file written with the new flag.
C10_ToggleSentinel ==
    [][ret'.op = "toggle" =>
          \A n \in CallNames, enabled \in BOOLEAN, writeOk \in BOOLEAN :
              toggle_plugin(n, enabled, writeOk)
                  => /\ ret'.result \in {"True", "False"}
                     /\ n \notin DOMAIN plugins => ret'.result = "False"
                     /\ ~writeOk => ret'.result = "False"
                     /\ ret'.result = "True"
                            => /\ WellFormed(disk'[n])
                               /\ disk'[n].name = n
                               /\ disk'[n].enabled = DumpEnabled(enabled)]_vars

C10_Witness ==
    /\ ret.op = "toggle" /\ ret.result = "False"
    /\ ret.name \in DOMAIN plugins
    /\ ~Persisted(ret.name)

\* C11 as claimed: install_plugin returns False, never raising, on a missing
\* source, a missing or malformed manifest, a failed directory copy and a
\* failure while reading or loading the installed copy; it returns True only
\* with the plugin named by the manifest registered afterwards.
C11_InstallSentinel ==
    [][ret'.op = "install" =>
          \A src \in DirContents, copyOk \in BOOLEAN, readOk \in BOOLEAN :
              install_plugin(src, copyOk, readOk)
                  => /\ ret'.result \in {"True", "False"}
                     /\ (~WellFormed(src) \/ ~copyOk \/ ~readOk \/ LoadFails(src))
                            => ret'.result = "False"
                     /\ ret'.result = "True" => src.name \in DOMAIN plugins']_vars


\* C12 as claimed: of the public operations of PluginExecutor only
\* execute_plugin lets an exception reach its caller; toggle_plugin,
\* install_plugin and create_sample_plugins end with a sentinel value
\* (True/False, or nothing once the samples are written and loaded).
C12_OnlyExecuteRaises ==
    /\ ret.op \in {"toggle", "install"} => ret.result \in {"True", "False"}
    /\ ret.op = "sample" => ret.result \in {"loading", "done"}

\* C18 as claimed: in every state reached by discovery and any sequence of
\* toggle_plugin, install_plugin and create_sample_plugins calls, every name
\* in plugin_modules is registered with enabled = true.
C18_ModulesOfEnabledOnly ==
    \A n \in DOMAIN plugin_modules : n \in DOMAIN plugins /\ plugins[n].enabled

\* C19 as claimed: a toggle_plugin call that returns False leaves the enabled
\* flag in memory, the loaded modules and the manifest file as they were.
C19_FailedToggleChangesNothing ==
    [][(ret'.op = "toggle" /\ ret'.result = "False") =>
          \A n \in CallNames, enabled \in BOOLEAN, writeOk \in BOOLEAN :
              toggle_plugin(n, enabled, writeOk)
                  => /\ plugins' = plugins
                     /\ plugin_modules' = plugin_modules
                     /\ disk' = disk]_vars

\* the last call was a successful install of n, or a successful toggle_plugin
\* of n that followed one
InstalledLast(n) ==
    \/ ret.op = "install" /\ ret.result = "True" /\ ret.name = n
    \/ /\ ret.op = "toggle" /\ ret.result = "True" /\ ret.name = n
       /\ ret.after = <<"install", n, "">>

\* C20 as claimed: once install_plugin has succeeded for a name, the module
\* execute_plugin runs for it - at once or after a later toggle_plugin - is
\* the installed code, never the module of an earlier install.
C20_RunsInstalledCode ==
    [][(pc = "idle" /\ pc' = "call") =>
          \A n \in Names :
              (ret'.name = n /\ InstalledLast(n))
                  => /\ disk[n].code.kind = "ok"
                     /\ plugin_modules[n] = disk[n].code.ver]_vars

(***************************************************************************)
(* Properties of the orchestrator (SpecTask)                               *)
(***************************************************************************)
TaskEnded == tpc = "idle" /\ task.id > 0

\* C3 as claimed: a failure at any step - memory lookup, model selection,
\* model call, plugin dispatch, memory write - ends the task as failed, with
\* the error recorded and re-raised.
C3_AnyFailureFails ==
    (TaskEnded /\ task.faults # {}) =>
        /\ task.status = "failed"
        /\ task.error # ""
        /\ tret = [id |-> task.id, outcome |-> "raised"]

\* C3 amended: the task ends as failed exactly when model selection raises
\* (no provider configured) or the model call raises (the selected model and
\* the fallbacks the router tried all failed); the status is then 'failed',
\* the error is recorded, the failing step is the last one run, nothing is
\* returned and the exception reaches the caller. A failed memory lookup,
\* dispatched line or memory write is caught where it happens and the task
\* completes; a failed model call is retried on a fallback provider.
C3_FailureAtSelectOrCall ==
    TaskEnded =>
        /\ (task.status = "failed") <=> (task.selected = "" \/ task.answered_by = "")
        /\ task.status = "failed" =>
               /\ task.error # ""
               /\ tret = [id |-> task.id, outcome |-> "raised"]
               /\ task.trail # <<>>
               /\ task.trail[Len(task.trail)] \in {"select", "call"}
               /\ task.trail[Len(task.trail)] \in task.faults
               /\ completed_tasks[Len(completed_tasks)] = Context(task)
        /\ task.status # "failed" =>
               /\ task.status = "completed"
               /\ task.error = ""
               /\ tret = [id |-> task.id, outcome |-> "returned"]

C3_Witness ==
    /\ TaskEnded
    /\ task.status = "failed"
    /\ task.error = "model_error"
    /\ task.use_memory
    /\ tret.outcome = "raised"

\* the bookkeeping of active_tasks and completed_tasks in one state
Tracked ==
    /\ active_tasks = IF tpc = "idle" THEN {} ELSE {task.id}
    /\ \A id \in 1..task.id :
           LET filed == {i \in 1..Len(completed_tasks) : completed_tasks[i].id = id}
           IN  IF id < task.id \/ tpc = "idle"
               THEN id \notin active_tasks /\ Cardinality(filed) = 1
               ELSE filed = {}

\* C4: every task that has ended, by returning or by raising, is out of
\* active_tasks and is in completed_tasks exactly once; a task is in
\* active_tasks only while its call runs; completed_tasks only grows.
C4_Lifecycle ==
    [][/\ Tracked
       /\ Tracked'
       /\ Len(completed_tasks') >= Len(completed_tasks)
       /\ \A i \in 1..Len(completed_tasks) :
              completed_tasks'[i] = completed_tasks[i]]_vars

C4_Witness ==
    /\ Len(completed_tasks) = 2
    /\ completed_tasks[1].status = "failed"
    /\ completed_tasks[2].status = "completed"
    /\ active_tasks = {}

\* the provider of model has a configured client
Configured(model) == model_map(model) \in Range(clients)

\* C13: select_model returns the requested model when it is not 'auto' and
\* its provider has a client; otherwise the preference-table model of the
\* prompt's class when that model's provider has a client, else the first
\* configured provider; it raises exactly when no client is configured.
C13_SelectModel ==
    "select" \in Range(task.trail) =>
        LET preferred == model_preferences(_classify_task(task.prompt))
        IN  /\ (task.selected = "") <=> (clients = <<>>)
            /\ task.selected = "" => (task.status = "failed" /\ task.error = "no_models")
            /\ (task.requested # "auto" /\ Configured(task.requested))
                   => task.selected = task.requested
            /\ (clients # <<>> /\ ~(task.requested # "auto" /\ Configured(task.requested)))
                   => task.selected = IF Configured(preferred) THEN preferred
                                      ELSE clients[1]

C13_Witness ==
    /\ "select" \in Range(task.trail)
    /\ task.requested = "gemini"
    /\ _classify_task(task.prompt) = "creative"
    /\ clients = <<"openai", "claude">>
    /\ task.selected = "openai"

\* C17 as claimed: LLMRouter.execute ends by itself for every set of
\* configured clients - when the selected model and every fallback fail the
\* provider's error reaches the caller after each was tried, no model that
\* has failed in the call is tried again, and the call never runs into the
\* interpreter's recursion limit.
C17_FallbackTerminates ==
    /\ tpc = "call" => task.model \notin task.tried
    /\ task.error # "recursion"

(***************************************************************************)
(* Properties of the dispatcher (SpecDispatch)                             *)
(***************************************************************************)
\* the keyword arguments k1 -> v1, ..., kn -> vn of pairs with distinct keys
KwargsOf(pairs) ==
    [k \in {pairs[i].key : i \in 1..Len(pairs)} |->
        pairs[CHOOSE i \in 1..Len(pairs) : pairs[i].key = k].value]

\* the loop is about to look at a line
Scanning == dret = "scanning" /\ lines # <<>>

\* C14 as claimed: a line tool:P.M(k1=v1,...,kn=vn) without quotes or nested
\* parentheses and with distinct keys makes exactly one call,
\* execute_plugin(P, M, k1=v1, ..., kn=vn), every value the text that was
\* written.
C14_ToolCallDispatch ==
    [][Scanning =>
          \A f \in ToolForms :
              Head(lines) = ToolLine(f.P, f.M, f.pairs)
                  => effects' = Append(effects,
                                       [op |-> "execute_plugin", name |-> f.P,
                                        method |-> f.M, kwargs |-> KwargsOf(f.pairs)])]_vars

\* the text after the first n characters of the stripped line, stripped
Payload(line, n) ==
    LET l == strip(line, Whitespace)
    IN  strip(SubSeq(l, n + 1, Len(l)), Whitespace)

\* C15: for a command on the execute: path that contains rm -rf, sudo,
\* passwd or del /f no subprocess is started and the result of the line is
\* the message 'Error: Dangerous command blocked'.
C15_DangerousBlocked ==
    [][Scanning =>
          LET line == strip(Head(lines), Whitespace)
              command == Payload(Head(lines), 8)
          IN  (startswith(line, PrefixExecute)
                 /\ \E d \in DenyList : contains(command, d))
                  => /\ effects' = effects
                     /\ results' = Append(results,
                                          [kind |-> "Command", arg |-> command,
                                           result |-> "Error: Dangerous command blocked"])]_vars

C15_Witness ==
    /\ results # <<>>
    /\ results[Len(results)].result = "Error: Dangerous command blocked"
    /\ contains(results[Len(results)].arg, <<"s", "u", "d", "o">>)
    /\ effects = <<>>

\* the prefix a line starts with once stripped, "" when with none
PrefixOf(line) ==
    LET l == strip(line, Whitespace)
    IN  IF startswith(l, PrefixExecute) THEN PrefixExecute
        ELSE IF startswith(l, PrefixSearch) THEN PrefixSearch
        ELSE IF startswith(l, PrefixTool) THEN PrefixTool
        ELSE <<>>

\* C16: execute_from_response returns None when no stripped line starts with
\* execute:, search: or tool:; otherwise there is exactly one block per such
\* line, in the order of the lines, whether or not the line's command or
\* tool call failed.
C16_OneBlockPerLine ==
    dret \in {"None", "text"} =>
        LET matching == SelectSeq(split(dresponse, "\n"), LAMBDA l : PrefixOf(l) # <<>>)
        IN  /\ (dret = "None") <=> (matching = <<>>)
            /\ Len(results) = Len(matching)
            /\ \A i \in 1..Len(matching) :
                   /\ results[i].arg = Payload(matching[i], Len(PrefixOf(matching[i])))
                   /\ results[i].kind =
                          IF PrefixOf(matching[i]) = PrefixExecute THEN "Command"
                          ELSE IF PrefixOf(matching[i]) = PrefixSearch THEN "Search"
                          ELSE "Tool"

C16_Witness ==
    /\ dret = "text"
    /\ Len(results) = 2
    /\ results[1].result = "Tool execution error: raised"
    /\ results[2].kind = "Command"
    /\ results[2].result = "stdout"

\* the lines of a reply that take a branch of execute_from_response's loop
DispatchableLines(text) ==
    SelectSeq(split(text, "\n"),
              LAMBDA l : \E prefix \in {PrefixExecute, PrefixSearch, PrefixTool} :
                             startswith(strip(l, Whitespace), prefix))

\* C22: with enable_plugins = False no subprocess is started and no plugin
\* method is called, whatever the reply contains; execute_from_response is
\* not entered and the response goes on to line 93 as the model gave it.
C22_DisabledRunsNothing ==
    (~denabled) =>
        /\ effects = <<>>
        /\ results = <<>>
        /\ dret \in {"gate", "skipped"}
        /\ dfinal.done => (~dfinal.appended /\ dfinal.section = <<>>)

C22_Witness ==
    /\ ~denabled
    /\ dfinal.done
    /\ Len(DispatchableLines(dresponse)) = 2
    /\ contains(dresponse, PrefixExecute)
    /\ contains(dresponse, PrefixTool)

\* C23: with enable_plugins = True a reply with a line that, stripped,
\* starts with execute:, search: or tool: passes the gate, every such line
\* gets its block in the appended section, and the section is appended
\* exactly when there is such a line.
C23_GateNeverSuppresses ==
    denabled =>
        LET matching == DispatchableLines(dresponse)
        IN  /\ matching # <<>> => (dret # "skipped" /\ _requires_plugin_execution_text(dresponse))
            /\ dfinal.done =>
                   /\ dfinal.appended <=> (matching # <<>>)
                   /\ Len(dfinal.section) = Len(matching)
                   /\ \A i \in 1..Len(matching) :
                          dfinal.section[i].arg
                              = Payload(matching[i], Len(PrefixOf(matching[i])))

C23_Witness ==
    /\ denabled
    /\ dfinal.done
    /\ dfinal.appended
    /\ Len(dfinal.section) = 2
    /\ dfinal.section[1].kind = "Search"
    /\ dfinal.section[2].kind = "Tool"

\* with enable_plugins = True, a reply that passes the gate on run: or on a
\* capital Execute: alone has nothing appended
C23_WitnessNothingToDispatch ==
    /\ denabled
    /\ dfinal.done
    /\ dret = "None"
    /\ ~dfinal.appended

(***************************************************************************)
(* Properties of the orchestrator, continued (SpecTask)                    *)
(***************************************************************************)
\* the place of a position of execute_task in the order of the steps
StepRank(p) ==
    IF p = "memory" THEN 1
    ELSE IF p = "select" THEN 2
    ELSE IF p = "call" THEN 3
    ELSE IF p = "dispatch" THEN 4
    ELSE IF p = "store" THEN 5
    ELSE IF p = "complete" THEN 6
    ELSE 7

\* how often step occurs in a trail
Occurrences(trail, step) == Cardinality({i \in 1..Len(trail) : trail[i] = step})

C25_ModelUsedIsAnswerer ==
    \A i \in 1..Len(completed_tasks) :
        (completed_tasks[i].status = "completed" /\ completed_tasks[i].id = task.id)
            => model_map(completed_tasks[i].model_used) = model_map(task.answered_by)

(***************************************************************************)
(* Properties of the plugin registry, continued (Spec)                     *)
(***************************************************************************)
\* the names list_available_plugins returns: registered with enabled true
list_available_plugins == {name \in DOMAIN plugins : plugins[name].enabled}

\* C24 as claimed: between calls, every name list_available_plugins returns
\* has a loaded module, so that execute_plugin on it fails with none of
\* not-found, not-enabled and not-loaded.
C24_AdvertisedIsInvocable ==
    pc = "idle" =>
        \A name \in list_available_plugins :
            /\ name \in DOMAIN plugin_modules
            /\ \A method \in Methods :
                   ExecutePrecondition(name, method)
                       \notin {"not_found", "not_enabled", "not_loaded"}

(***************************************************************************)
(* Properties of nested plugin calls (SpecNested)                          *)
(***************************************************************************)
\* C26: an execute_plugin entered while another is running arms the one
\* alarm afresh, whatever was left of the caller's; when it ends the alarm
\* is off and stays off while the caller's method runs on, so the caller is
\* never ended by its timeout from there, however long it runs.
C26_AlarmNotReentrant ==
    [][/\ (pc = "call" /\ Len(stack') > Len(stack)) => alarm' = Timeout
       /\ (pc # "call" /\ stack # <<>> /\ Len(stack') < Len(stack) /\ pc' = "call")
              => (alarm' = 0 /\ handler' = "timeout_handler")
       /\ (pc = "call" /\ alarm = 0 /\ ~sigPending /\ Len(stack') = Len(stack))
              => /\ ~sigPending'
                 /\ pc' = "call" => alarm' = 0
                 /\ pc' # "call" => ret'.result # "timeout"]_vars

\* the inner call is over, the outer method needs more than the timeout
\* still, and no alarm is armed
C26_Witness ==
    /\ pc = "call"
    /\ stack = <<>>
    /\ ret.op = "execute"
    /\ alarm = 0
    /\ ~sigPending
    /\ work > Timeout

(***************************************************************************)
(* Properties of overlapping toggle_plugin calls (SpecRace)                *)
(***************************************************************************)
\* both calls have returned True
BothReturnedTrue ==
    \A t \in Threads : toggles[t].pc = "done" /\ toggles[t].result = "True"

\* manifest.json holds the flag the registry holds
FileAgrees ==
    /\ disk[RaceName].manifest = "json"
    /\ ParseEnabled(disk[RaceName].enabled) = plugins[RaceName].enabled

\* the module of a disabled plugin is not loaded, that of an enabled one with
\* loadable code is
ModuleAgrees ==
    IF plugins[RaceName].enabled
    THEN disk[RaceName].code.kind = "ok" => RaceName \in DOMAIN plugin_modules
    ELSE RaceName \notin DOMAIN plugin_modules

\* C27: two toggle_plugin calls on one plugin, one enabling and one
\* disabling, that run one after the other and both return True leave the
\* flag in memory, the flag in manifest.json and the loaded module in
\* agreement; disagreement after both returned True comes only from calls
\* that overlapped (C27_Witness: it does come).
C27_DisagreeOnlyInterleaved ==
    (BothReturnedTrue /\ ~raced) => (FileAgrees /\ ModuleAgrees)

\* after two overlapping calls that both returned True the plugin is
\* enabled in memory, disabled in manifest.json, and its module, whose code
\* loads, is not loaded
C27_Witness ==
    /\ BothReturnedTrue
    /\ raced
    /\ plugins[RaceName].enabled
    /\ disk[RaceName].manifest = "json"
    /\ disk[RaceName].enabled = "false"
    /\ disk[RaceName].code.kind = "ok"
    /\ RaceName \notin DOMAIN plugin_modules

\* after two overlapping calls that both returned True the plugin is
\* disabled in memory, its module is loaded, and manifest.json is no JSON
C27_WitnessBrokenFile ==
    /\ BothReturnedTrue
    /\ raced
    /\ ~plugins[RaceName].enabled
    /\ disk[RaceName].manifest = "badjson"
    /\ RaceName \in DOMAIN plugin_modules

====
